---------------------------- MODULE Spec2Model ----------------------------
(***************************************************************************)
(* Key-event notification subsystem of redisgk: the listenerKeyEventManager *)
(* (start / stop / listenForEvents / processEventMessage / getKeyValue),    *)
(* getKeyEventChannel, the facade that drives it (NewRedisGk, Close) and    *)
(* the store as the environment that publishes key-event messages.          *)
(***************************************************************************)
EXTENDS Integers, Sequences, FiniteSets, TLC

(* ------------------------------ bounds --------------------------------- *)
\* messages the store publishes in one run
MaxPub == 2
\* receive loops one manager spawns in one run (effective start() calls)
MaxStarts == 2

\* goroutines that call into the facade / the manager
Threads == {"t1", "t2"}
NoThread == "none"
LoopIds == 1..MaxStarts
Consumers == {"c1", "c2"}
Keys == {"k1"}
Values == {"", "v"}

(* --------------------------- program constants ------------------------- *)
EventTypeExpire == "expire"
EventTypeExpired == "expired"
EventTypeCreated == "created"
EventTypeUpdated == "updated"
EventTypeDeleted == "deleted"
EventTypeUnknown == "unknown"

\* A channel name is a prefix up to and including the first ':' and the rest.
KeyEventPrefix == "__keyevent@0__:"
Channel(prefix, name) == [prefix |-> prefix, name |-> name]
\* the channels start() subscribes to
SubscribedChannels ==
    { Channel(KeyEventPrefix, "expire"), Channel(KeyEventPrefix, "expired"),
      Channel(KeyEventPrefix, "set"), Channel(KeyEventPrefix, "del") }
\* channel names the classifier does not recognise
OtherChannels ==
    { Channel(KeyEventPrefix, "rename_from"), Channel("__keyspace@0__:", "k1") }

\* strings.HasPrefix(ch, p) for p a whole channel prefix
HasPrefix(ch, p) == ch.prefix = p
\* strings.HasSuffix(ch, ":" + s)
HasSuffix(ch, s) == ch.name = s

NoKey == [exists |-> FALSE, ttl |-> FALSE, val |-> ""]
\* what the store may hold under one key: nothing, or a value with or without a TTL
KeyStates == { NoKey } \cup [exists : {TRUE}, ttl : BOOLEAN, val : Values]
NoMsg == [id |-> 0]
\* the nil *redis.Message a receive from a closed message channel yields
NilMsg == [id |-> -1]
\* a subscription's message channel: messages arrive, the subscription could
\* not be established (nothing arrives), or the transport closed the channel
FeedLive == "live"
FeedFailed == "failed"
FeedEnded == "ended"
NoEvent == [src |-> 0]
\* notify-keyspace-events: not set by this program, or the flags ConfigSet wrote
NotifyUnset == "unset"
NotifyFlags == "Exg"
\* em.keyEventChan: the one channel the constructor makes
keyEventChan == "keyEventChan"
NoView == [chan |-> "none"]
NoCall == [op |-> "none"]
\* rd of a loop whose last message was read for (getKeyValue was called) and
\* then dropped as Unknown
ReadDiscarded == "discarded"
\* a nil *redis.Client
NilClient == [nil |-> TRUE, DB |-> 0]
\* var redisOnce sync.Once; var redisClient *redis.Client: Do has not run, the
\* client is nil, no call has been made
NoPkg == [redisOnce |-> FALSE, redisClient |-> NilClient, n |-> 0, last |-> << >>]
\* the channel expirationManager.start() subscribes to and its loop filters on
ExpirationChannel == Channel(KeyEventPrefix, "expire")
\* a newExpirationManager() result: not running, no goroutine, no subscription
NoExp == [isRunning |-> FALSE, ctxDone |-> FALSE, closed |-> FALSE,
          stopping |-> FALSE, subOpen |-> FALSE, pc |-> "none",
          queue |-> << >>, ev |-> NoEvent, out |-> << >>, fault |-> "none"]

VARIABLES
    isRunning,    \* em.isRunning
    mu,           \* em.mu: NoThread when free, else the thread that holds it
    ctxDone,      \* em.ctx has been cancelled
    wg,           \* em.wg counter
    closes,       \* number of close(em.keyEventChan) statements executed
    fault,        \* the panic that ended the process, or "none"
    loops,        \* one record per spawned listenForEvents goroutine and its pubsub
                  \* (rd: how the point read for the event in hand-off ended, or
                  \* that the read made for the last message was thrown away)
    pc,           \* per thread: position inside start()/stop()/Close()
    via,          \* per thread: "New" / "Close" inside that facade call, else "none"
    facade,       \* "none" | "constructing" | "ready": NewRedisGk's progress
    connOpen,     \* the redis client has not been closed
    store,        \* the store's keys
    nPub,         \* number of messages the store has published
    received,     \* the messages the loops took from their subscription, in order
    emitted,      \* the events the loops built for hand-off (not Unknown), in order,
                  \* each with what a TTL query of its key would have answered then
    delivered,    \* events the consumers received, in order, with the receiving consumer
    notify,       \* the store's notify-keyspace-events setting as NewRedisGk left it
    view,         \* what the last getKeyEventChannel() call returned, and the
                  \* manager state it was called in
    api,          \* the last call of a function that keeps no state of its own,
                  \* with its input and what it returned
    exp,          \* the expirationManager: its fields, its listenForExpirations
                  \* goroutine and subscription, and the events its consumer took
    pkg           \* the package-level variables of the once-initialised connector
                  \* (redisOnce, redisClient), the number of calls made and the
                  \* last call with what it returned

vars == << isRunning, mu, ctxDone, wg, closes, fault, loops, pc, via,
           facade, connOpen, store, nPub, received, emitted, delivered,
           notify, view, api, exp, pkg >>

mgrVars == << isRunning, mu, ctxDone, wg, closes >>
envVars == << store, nPub, notify >>
logVars == << received, emitted, delivered >>

(* ------------------------------ helpers -------------------------------- *)
Alive(l) == l.pc \in {"select", "process", "send", "closing", "wgdone"}
LiveLoops == { g \in DOMAIN loops : Alive(loops[g]) }
OpenSubs == { g \in DOMAIN loops : loops[g].subOpen }
\* a closed channel: a receive yields end-of-sequence, a send or a close panics
ChanClosed == closes > 0

\* newListenerKeyEventManager: the state right after construction
Init ==
    /\ isRunning = FALSE
    /\ mu = NoThread
    /\ ctxDone = FALSE
    /\ wg = 0
    /\ closes = 0
    /\ fault = "none"
    /\ loops = << >>
    /\ pc = [t \in Threads |-> "idle"]
    /\ via = [t \in Threads |-> "none"]
    /\ facade = "none"
    /\ connOpen = TRUE
    /\ store \in [Keys -> KeyStates]
    /\ nPub = 0
    /\ received = << >>
    /\ emitted = << >>
    /\ delivered = << >>
    /\ notify = NotifyUnset
    /\ view = NoView
    /\ api = NoCall
    /\ exp = NoExp
    /\ pkg = NoPkg

(* ----------------------- the store (environment) ----------------------- *)
\* The store hands a published message to every open, established subscription.
Publish(ch, k) ==
    /\ nPub' = nPub + 1
    /\ loops' = [g \in DOMAIN loops |->
                   IF loops[g].subOpen /\ loops[g].feed = FeedLive
                   THEN [loops[g] EXCEPT !.queue =
                            Append(@, [id |-> nPub + 1, Channel |-> ch, Payload |-> k])]
                   ELSE loops[g]]

\* SET k v
StoreSet(k, v) ==
    /\ fault = "none" /\ nPub < MaxPub
    /\ store' = [store EXCEPT ![k] = [exists |-> TRUE, ttl |-> FALSE, val |-> v]]
    /\ Publish(Channel(KeyEventPrefix, "set"), k)
    /\ UNCHANGED << mgrVars, fault, pc, via, facade, connOpen, logVars, notify, view, api, exp, pkg >>

\* EXPIRE k n on a live key: a TTL is assigned, the key stays
StoreExpire(k) ==
    /\ fault = "none" /\ nPub < MaxPub
    /\ store[k].exists
    /\ store' = [store EXCEPT ![k].ttl = TRUE]
    /\ Publish(Channel(KeyEventPrefix, "expire"), k)
    /\ UNCHANGED << mgrVars, fault, pc, via, facade, connOpen, logVars, notify, view, api, exp, pkg >>

\* the TTL of k ran out: the store removes the key
StoreExpired(k) ==
    /\ fault = "none" /\ nPub < MaxPub
    /\ store[k].exists /\ store[k].ttl
    /\ store' = [store EXCEPT ![k] = NoKey]
    /\ Publish(Channel(KeyEventPrefix, "expired"), k)
    /\ UNCHANGED << mgrVars, fault, pc, via, facade, connOpen, logVars, notify, view, api, exp, pkg >>

\* DEL k
StoreDel(k) ==
    /\ fault = "none" /\ nPub < MaxPub
    /\ store[k].exists
    /\ store' = [store EXCEPT ![k] = NoKey]
    /\ Publish(Channel(KeyEventPrefix, "del"), k)
    /\ UNCHANGED << mgrVars, fault, pc, via, facade, connOpen, logVars, notify, view, api, exp, pkg >>

\* a message on a channel the classifier does not recognise: the loop takes
\* whatever *redis.Message the subscription yields, so the channels outside
\* SubscribedChannels are among its inputs
StoreOther(ch, k) ==
    /\ fault = "none" /\ nPub < MaxPub
    /\ Publish(ch, k)
    /\ UNCHANGED << mgrVars, fault, pc, via, facade, connOpen, store, logVars, notify, view, api, exp, pkg >>

\* TTL k as the store answers it
TTLState(k) ==
    IF ~store[k].exists THEN "DoesNotExist"
    ELSE IF store[k].ttl THEN "Remaining" ELSE "NoExpiry"

\* the outcomes of client.Get(ctx, key).Result(): the value, redis.Nil, or
\* another error (timeout, cancelled context, transport)
GetResults(k) ==
    { [err |-> "failed", val |-> ""] } \cup
    ( IF store[k].exists THEN { [err |-> "none", val |-> store[k].val] }
      ELSE { [err |-> "nil", val |-> ""] } )

(* ---------------------- listenerKeyEventManager ------------------------ *)
\* getKeyValue: ("", error) on redis.Nil and on any other error, else (result, nil)
getKeyValue(r) ==
    IF r.err # "none" THEN [value |-> "", err |-> r.err]
    ELSE [value |-> r.val, err |-> "none"]

\* a classifier that reports every expire message as a true expiry
classifyExpireAsExpired(ch) ==
    IF HasPrefix(ch, KeyEventPrefix)
    THEN IF HasSuffix(ch, "expire") THEN EventTypeExpired
         ELSE IF HasSuffix(ch, "expired") THEN EventTypeExpired
         ELSE IF HasSuffix(ch, "set") THEN EventTypeCreated
         ELSE IF HasSuffix(ch, "del") THEN EventTypeDeleted
         ELSE EventTypeUnknown
    ELSE EventTypeUnknown

\* a classifier that reports a set message as an update
classifySetAsUpdated(ch) ==
    IF HasPrefix(ch, KeyEventPrefix)
    THEN IF HasSuffix(ch, "expire") THEN EventTypeExpire
         ELSE IF HasSuffix(ch, "expired") THEN EventTypeExpired
         ELSE IF HasSuffix(ch, "set") THEN EventTypeUpdated
         ELSE IF HasSuffix(ch, "del") THEN EventTypeDeleted
         ELSE EventTypeUnknown
    ELSE EventTypeUnknown

\* the event type processEventMessage derives from the channel name
classify(ch) ==
    IF HasPrefix(ch, KeyEventPrefix)
    THEN IF HasSuffix(ch, "expire") THEN EventTypeExpire
         ELSE IF HasSuffix(ch, "expired") THEN EventTypeExpired
         ELSE IF HasSuffix(ch, "set") THEN EventTypeCreated
         ELSE IF HasSuffix(ch, "del") THEN EventTypeDeleted
         ELSE EventTypeUnknown
    ELSE EventTypeUnknown

\* processEventMessage; r is what the point read of the key returned.
\* src names the message the event was built from (it stands for Timestamp).
processEventMessage(msg, r) ==
    [ Key |-> msg.Payload,
      Value |-> getKeyValue(r).value,
      EventType |-> classify(msg.Channel),
      Channel |-> msg.Channel,
      src |-> msg.id ]

\* where a thread continues when start() / stop() returns
AfterStart(t) == IF via[t] = "New" THEN "new_ret" ELSE "idle"
AfterStop(t) == IF via[t] = "Close" THEN "close_conn" ELSE "idle"

\* start() without the isRunning check
StartEnterNoCheck(t) ==
    /\ fault = "none" /\ pc[t] = "start_enter" /\ mu = NoThread
    /\ mu' = t
    /\ pc' = [pc EXCEPT ![t] = "start_sub"]
    /\ UNCHANGED << isRunning, ctxDone, wg, closes, fault, loops, via, facade,
                    connOpen, envVars, logVars, view, api, exp, pkg >>

\* start(): em.mu.Lock(); defer em.mu.Unlock(); if em.isRunning
StartEnter(t) ==
    /\ fault = "none" /\ pc[t] = "start_enter" /\ mu = NoThread
    /\ mu' = t
    /\ pc' = [pc EXCEPT ![t] = IF isRunning THEN "start_noop" ELSE "start_sub"]
    /\ UNCHANGED << isRunning, ctxDone, wg, closes, fault, loops, via, facade,
                    connOpen, envVars, logVars, view, api, exp, pkg >>

\* start(): pubsub := em.client.Subscribe(em.ctx, channels...). Subscribe
\* returns the *redis.PubSub whether or not the subscription was established;
\* start() looks at no error.
StartSubscribe(t) ==
    /\ fault = "none" /\ pc[t] = "start_sub"
    /\ Len(loops) < MaxStarts
    /\ \E f \in {FeedLive, FeedFailed} :
         loops' = Append(loops, [pc |-> "new", subOpen |-> TRUE, feed |-> f,
                                 queue |-> << >>, msg |-> NoMsg, ev |-> NoEvent,
                                 rd |-> "none"])
    /\ pc' = [pc EXCEPT ![t] = "start_spawn"]
    /\ UNCHANGED << mgrVars, fault, via, facade, connOpen, envVars, logVars, view, api, exp, pkg >>

\* start(): em.wg.Add(1); go em.listenForEvents(pubsub)
StartSpawn(t) ==
    /\ fault = "none" /\ pc[t] = "start_spawn"
    /\ wg' = wg + 1
    /\ loops' = [loops EXCEPT ![Len(loops)].pc = "select"]
    /\ pc' = [pc EXCEPT ![t] = "start_ret"]
    /\ UNCHANGED << isRunning, mu, ctxDone, closes, fault, via, facade, connOpen,
                    envVars, logVars, view, api, exp, pkg >>

\* start(): return nil (deferred Unlock): at once when the listener is already
\* running, else after em.isRunning = true
StartReturn(t) ==
    /\ fault = "none" /\ pc[t] \in {"start_noop", "start_ret"}
    /\ isRunning' = IF pc[t] = "start_ret" THEN TRUE ELSE isRunning
    /\ mu' = NoThread
    /\ pc' = [pc EXCEPT ![t] = AfterStart(t)]
    /\ UNCHANGED << ctxDone, wg, closes, fault, loops, via, facade, connOpen,
                    envVars, logVars, view, api, exp, pkg >>

\* stop() without the isRunning check
StopEnterNoCheck(t) ==
    /\ fault = "none" /\ pc[t] = "stop_enter" /\ mu = NoThread
    /\ mu' = t
    /\ pc' = [pc EXCEPT ![t] = "stop_cancel"]
    /\ UNCHANGED << isRunning, ctxDone, wg, closes, fault, loops, via, facade,
                    connOpen, envVars, logVars, view, api, exp, pkg >>

\* stop(): em.mu.Lock(); defer em.mu.Unlock(); if !em.isRunning
StopEnter(t) ==
    /\ fault = "none" /\ pc[t] = "stop_enter" /\ mu = NoThread
    /\ mu' = t
    /\ pc' = [pc EXCEPT ![t] = IF ~isRunning THEN "stop_noop" ELSE "stop_cancel"]
    /\ UNCHANGED << isRunning, ctxDone, wg, closes, fault, loops, via, facade,
                    connOpen, envVars, logVars, view, api, exp, pkg >>

\* a stop() that gives the lock up before it waits for the loop
StopCancelUnlocks(t) ==
    /\ fault = "none" /\ pc[t] = "stop_cancel"
    /\ ctxDone' = TRUE
    /\ mu' = NoThread
    /\ pc' = [pc EXCEPT ![t] = "stop_wait"]
    /\ UNCHANGED << isRunning, wg, closes, fault, loops, via, facade, connOpen,
                    envVars, logVars, view, api, exp, pkg >>

\* stop(): em.cancel()
StopCancel(t) ==
    /\ fault = "none" /\ pc[t] = "stop_cancel"
    /\ ctxDone' = TRUE
    /\ pc' = [pc EXCEPT ![t] = "stop_wait"]
    /\ UNCHANGED << isRunning, mu, wg, closes, fault, loops, via, facade, connOpen,
                    envVars, logVars, view, api, exp, pkg >>

\* stop() that does not wait for the receive loop before closing the channel
StopWaitNoJoin(t) ==
    /\ fault = "none" /\ pc[t] = "stop_wait"
    /\ pc' = [pc EXCEPT ![t] = "stop_close"]
    /\ UNCHANGED << mgrVars, fault, loops, via, facade, connOpen, envVars, logVars, view, api, exp, pkg >>

\* stop(): em.wg.Wait()
StopWait(t) ==
    /\ fault = "none" /\ pc[t] = "stop_wait"
    /\ wg = 0
    /\ pc' = [pc EXCEPT ![t] = "stop_close"]
    /\ UNCHANGED << mgrVars, fault, loops, via, facade, connOpen, envVars, logVars, view, api, exp, pkg >>

\* stop(): close(em.keyEventChan); closing a closed channel panics
StopClose(t) ==
    /\ fault = "none" /\ pc[t] = "stop_close"
    /\ closes' = closes + 1
    /\ fault' = IF ChanClosed THEN "close of closed channel" ELSE "none"
    /\ pc' = [pc EXCEPT ![t] = "stop_ret"]
    /\ UNCHANGED << isRunning, mu, ctxDone, wg, loops, via, facade, connOpen,
                    envVars, logVars, view, api, exp, pkg >>

\* a stop() that forgets em.isRunning = false
StopReturnLeavesRunning(t) ==
    /\ fault = "none" /\ pc[t] \in {"stop_noop", "stop_ret"}
    /\ mu' = NoThread
    /\ pc' = [pc EXCEPT ![t] = AfterStop(t)]
    /\ UNCHANGED << isRunning, ctxDone, wg, closes, fault, loops, via, facade,
                    connOpen, envVars, logVars, view, api, exp, pkg >>

\* stop(): return (deferred Unlock): at once when the listener is not running,
\* else after em.isRunning = false
StopReturn(t) ==
    /\ fault = "none" /\ pc[t] \in {"stop_noop", "stop_ret"}
    /\ isRunning' = IF pc[t] = "stop_ret" THEN FALSE ELSE isRunning
    /\ mu' = NoThread
    /\ pc' = [pc EXCEPT ![t] = AfterStop(t)]
    /\ UNCHANGED << ctxDone, wg, closes, fault, loops, via, facade, connOpen,
                    envVars, logVars, view, api, exp, pkg >>

\* where the manager is in its life when nobody is inside start() or stop():
\* never started, running, or stopped; "changing" while a call holds the lock
ManagerPhase ==
    IF mu # NoThread THEN "changing"
    ELSE IF isRunning THEN "running"
    ELSE IF Len(loops) = 0 THEN "new" ELSE "stopped"

\* getKeyEventChannel(): return em.keyEventChan (no lock, no check of the state)
getKeyEventChannel(c) ==
    /\ fault = "none"
    /\ view' = [chan |-> keyEventChan, phase |-> ManagerPhase, closed |-> ChanClosed]
    /\ UNCHANGED << mgrVars, fault, loops, pc, via, facade, connOpen, envVars, logVars, api, exp, pkg >>

(* --------------------------- listenForEvents --------------------------- *)
\* select { case <-em.ctx.Done(): return }
LoopSelectDone(g) ==
    /\ fault = "none" /\ g \in DOMAIN loops /\ loops[g].pc = "select"
    /\ ctxDone
    /\ loops' = [loops EXCEPT ![g].pc = "closing"]
    /\ UNCHANGED << mgrVars, fault, pc, via, facade, connOpen, envVars, logVars, view, api, exp, pkg >>

\* a receive that takes the newest queued message instead of the oldest
LoopRecvNewest(g) ==
    /\ fault = "none" /\ g \in DOMAIN loops /\ loops[g].pc = "select"
    /\ loops[g].queue # << >>
    /\ LET q == loops[g].queue IN
         /\ loops' = [loops EXCEPT ![g].pc = "process",
                                   ![g].msg = q[Len(q)],
                                   ![g].queue = SubSeq(q, 1, Len(q) - 1)]
         /\ received' = Append(received, q[Len(q)])
    /\ UNCHANGED << mgrVars, fault, pc, via, facade, connOpen, envVars, emitted,
                    delivered, view, api, exp, pkg >>

\* select { case msg := <-pubsub.Channel(): }
LoopRecv(g) ==
    /\ fault = "none" /\ g \in DOMAIN loops /\ loops[g].pc = "select"
    /\ loops[g].queue # << >>
    /\ loops' = [loops EXCEPT ![g].pc = "process",
                              ![g].msg = Head(loops[g].queue),
                              ![g].queue = Tail(loops[g].queue),
                              ![g].rd = "none"]
    /\ received' = Append(received, Head(loops[g].queue))
    /\ UNCHANGED << mgrVars, fault, pc, via, facade, connOpen, envVars, emitted,
                    delivered, view, api, exp, pkg >>

\* the transport closes the subscription's message channel (the client's
\* connections were closed under the subscription)
TransportClose(g) ==
    /\ fault = "none" /\ g \in DOMAIN loops
    /\ loops[g].subOpen /\ loops[g].feed = FeedLive
    /\ loops' = [loops EXCEPT ![g].feed = FeedEnded]
    /\ UNCHANGED << mgrVars, fault, pc, via, facade, connOpen, envVars, logVars, view, api, exp, pkg >>

\* select { case msg := <-pubsub.Channel(): } on the closed, drained message
\* channel: the receive yields nil at once (the code takes no ", ok")
LoopRecvClosed(g) ==
    /\ fault = "none" /\ g \in DOMAIN loops /\ loops[g].pc = "select"
    /\ loops[g].queue = << >> /\ loops[g].feed = FeedEnded
    /\ loops' = [loops EXCEPT ![g].pc = "process", ![g].msg = NilMsg]
    /\ UNCHANGED << mgrVars, fault, pc, via, facade, connOpen, envVars, logVars, view, api, exp, pkg >>

\* a loop that gives up when the point read of the key fails
LoopProcessAbortsOnReadError(g) ==
    /\ fault = "none" /\ g \in DOMAIN loops /\ loops[g].pc = "process"
    /\ loops[g].msg # NilMsg
    /\ \E r \in GetResults(loops[g].msg.Payload) :
         LET event == processEventMessage(loops[g].msg, r) IN
         IF r.err # "none"
         THEN /\ loops' = [loops EXCEPT ![g].pc = "closing", ![g].msg = NoMsg]
              /\ UNCHANGED emitted
         ELSE IF event.EventType # EventTypeUnknown
         THEN /\ loops' = [loops EXCEPT ![g].pc = "send", ![g].ev = event,
                                        ![g].msg = NoMsg, ![g].rd = r.err]
              /\ emitted' = Append(emitted, [ev |-> event,
                                              ttl |-> TTLState(event.Key)])
         ELSE /\ loops' = [loops EXCEPT ![g].pc = "select", ![g].msg = NoMsg]
              /\ UNCHANGED emitted
    /\ UNCHANGED << mgrVars, fault, pc, via, facade, connOpen, envVars, received,
                    delivered, view, api, exp, pkg >>

\* a loop that forwards every event, Unknown ones too
LoopProcessForwardsUnknown(g) ==
    /\ fault = "none" /\ g \in DOMAIN loops /\ loops[g].pc = "process"
    /\ loops[g].msg # NilMsg
    /\ \E r \in GetResults(loops[g].msg.Payload) :
         LET event == processEventMessage(loops[g].msg, r) IN
         /\ loops' = [loops EXCEPT ![g].pc = "send", ![g].ev = event,
                                   ![g].msg = NoMsg, ![g].rd = r.err]
         /\ emitted' = Append(emitted, [ev |-> event, ttl |-> TTLState(event.Key)])
    /\ UNCHANGED << mgrVars, fault, pc, via, facade, connOpen, envVars, received,
                    delivered, view, api, exp, pkg >>

\* a loop that puts the event aside and goes back to receive, as with a
\* buffered hand-off channel
LoopProcessBuffers(g) ==
    /\ fault = "none" /\ g \in DOMAIN loops /\ loops[g].pc = "process"
    /\ loops[g].msg # NilMsg
    /\ \E r \in GetResults(loops[g].msg.Payload) :
          LET event == processEventMessage(loops[g].msg, r) IN
          /\ loops' = [loops EXCEPT ![g].pc = "select", ![g].msg = NoMsg]
          /\ emitted' = IF event.EventType # EventTypeUnknown
                        THEN Append(emitted, [ev |-> event, ttl |-> TTLState(event.Key)])
                        ELSE emitted
    /\ UNCHANGED << mgrVars, fault, pc, via, facade, connOpen, envVars, received,
                    delivered, view, api, exp, pkg >>

\* event := em.processEventMessage(msg); if event.EventType != EventTypeUnknown.
\* processEventMessage reads msg.Channel first: a nil msg is a nil dereference.
LoopProcess(g) ==
    /\ fault = "none" /\ g \in DOMAIN loops /\ loops[g].pc = "process"
    /\ IF loops[g].msg = NilMsg
       THEN /\ fault' = "nil pointer dereference"
            /\ UNCHANGED << loops, emitted >>
       ELSE /\ \E r \in GetResults(loops[g].msg.Payload) :
                 LET event == processEventMessage(loops[g].msg, r) IN
                 IF event.EventType # EventTypeUnknown
                 THEN /\ loops' = [loops EXCEPT ![g].pc = "send", ![g].ev = event,
                                                ![g].msg = NoMsg, ![g].rd = r.err]
                      /\ emitted' = Append(emitted, [ev |-> event,
                                                      ttl |-> TTLState(event.Key)])
                 ELSE /\ loops' = [loops EXCEPT ![g].pc = "select", ![g].msg = NoMsg,
                                                ![g].rd = ReadDiscarded]
                      /\ UNCHANGED emitted
            /\ UNCHANGED fault
    /\ UNCHANGED << mgrVars, pc, via, facade, connOpen, envVars, received,
                    delivered, view, api, exp, pkg >>

\* a hand-off that gives the event to every consumer, as a broadcast would
LoopSendToAll(g, c) ==
    /\ fault = "none" /\ g \in DOMAIN loops /\ loops[g].pc = "send"
    /\ ~ChanClosed
    /\ delivered' = delivered \o << [to |-> "c1", ev |-> loops[g].ev],
                                    [to |-> "c2", ev |-> loops[g].ev] >>
    /\ loops' = [loops EXCEPT ![g].pc = "select", ![g].ev = NoEvent,
                              ![g].rd = "none"]
    /\ UNCHANGED << mgrVars, fault, pc, via, facade, connOpen, envVars,
                    received, emitted, view, api, exp, pkg >>

\* a hand-off that does not leave the send after the consumer received
LoopSendAgain(g, c) ==
    /\ fault = "none" /\ g \in DOMAIN loops /\ loops[g].pc = "send"
    /\ ~ChanClosed
    /\ Len(delivered) <= MaxPub
    /\ delivered' = Append(delivered, [to |-> c, ev |-> loops[g].ev])
    /\ UNCHANGED << mgrVars, fault, loops, pc, via, facade, connOpen, envVars,
                    received, emitted, view, api, exp, pkg >>

\* select { case em.keyEventChan <- event: }: the unbuffered send completes
\* when consumer c receives; on a closed channel the send panics
LoopSend(g, c) ==
    /\ fault = "none" /\ g \in DOMAIN loops /\ loops[g].pc = "send"
    /\ IF ChanClosed
       THEN /\ fault' = "send on closed channel"
            /\ UNCHANGED << loops, delivered >>
       ELSE /\ delivered' = Append(delivered, [to |-> c, ev |-> loops[g].ev])
            /\ loops' = [loops EXCEPT ![g].pc = "select", ![g].ev = NoEvent,
                                      ![g].rd = "none"]
            /\ UNCHANGED fault
    /\ UNCHANGED << mgrVars, pc, via, facade, connOpen, envVars, received, emitted, view, api, exp, pkg >>

\* a hand-off that does not watch the cancellation: a bare em.keyEventChan <- event
LoopSendIgnoresDone(g) ==
    /\ FALSE
    /\ UNCHANGED vars

\* select { case <-em.ctx.Done(): return } while the send is pending
LoopSendDone(g) ==
    /\ fault = "none" /\ g \in DOMAIN loops /\ loops[g].pc = "send"
    /\ ctxDone
    /\ loops' = [loops EXCEPT ![g].pc = "closing", ![g].ev = NoEvent,
                              ![g].rd = "none"]
    /\ UNCHANGED << mgrVars, fault, pc, via, facade, connOpen, envVars, logVars, view, api, exp, pkg >>

\* a loop whose deferred function forgets pubsub.Close()
LoopLeavePubSubOpen(g) ==
    /\ fault = "none" /\ g \in DOMAIN loops /\ loops[g].pc = "closing"
    /\ loops' = [loops EXCEPT ![g].pc = "wgdone"]
    /\ UNCHANGED << mgrVars, fault, pc, via, facade, connOpen, envVars, logVars, view, api, exp, pkg >>

\* deferred: pubsub.Close()
LoopClosePubSub(g) ==
    /\ fault = "none" /\ g \in DOMAIN loops /\ loops[g].pc = "closing"
    /\ loops' = [loops EXCEPT ![g].pc = "wgdone", ![g].subOpen = FALSE,
                              ![g].queue = << >>]
    /\ UNCHANGED << mgrVars, fault, pc, via, facade, connOpen, envVars, logVars, view, api, exp, pkg >>

\* deferred: em.wg.Done()
LoopWgDone(g) ==
    /\ fault = "none" /\ g \in DOMAIN loops /\ loops[g].pc = "wgdone"
    /\ wg' = wg - 1
    /\ loops' = [loops EXCEPT ![g].pc = "exited"]
    /\ UNCHANGED << isRunning, mu, ctxDone, closes, fault, pc, via, facade,
                    connOpen, envVars, logVars, view, api, exp, pkg >>

(* ------------------------------- facade -------------------------------- *)
\* the outcomes of a step of NewRedisGk that can return an error
Outcomes == {"ok", "error"}

\* a step of NewRedisGk: on an error NewRedisGk returns (nil, err), else it
\* goes on to the next step
NewStep(t, from, to) ==
    /\ fault = "none" /\ pc[t] = from
    /\ \E o \in Outcomes :
         IF o = "ok"
         THEN /\ pc' = [pc EXCEPT ![t] = to]
              /\ UNCHANGED << facade, via >>
         ELSE /\ pc' = [pc EXCEPT ![t] = "idle"]
              /\ facade' = "failed"
              /\ via' = [via EXCEPT ![t] = "none"]
    /\ UNCHANGED << mgrVars, fault, loops, connOpen, store, nPub, logVars, view, api, exp, pkg >>

\* NewRedisGk is called
CallNew(t) ==
    /\ fault = "none" /\ pc[t] = "idle" /\ facade = "none"
    /\ facade' = "constructing"
    /\ via' = [via EXCEPT ![t] = "New"]
    /\ pc' = [pc EXCEPT ![t] = "new_connect"]
    /\ UNCHANGED << mgrVars, fault, loops, connOpen, envVars, logVars, view, api, exp, pkg >>

\* NewRedisGk: redisClient, err := newRedisClientConnector(conf)
NewConnect(t) ==
    /\ NewStep(t, "new_connect", "new_ping")
    /\ UNCHANGED notify

\* initializeWithKeyExpirationNotifications: ri.checkConnection() (Ping)
NewPing(t) ==
    /\ NewStep(t, "new_ping", "new_config")
    /\ UNCHANGED notify

\* a configuration step that goes on to start the manager although ConfigSet failed
NewConfigureIgnoresError(t) ==
    /\ fault = "none" /\ pc[t] = "new_config"
    /\ pc' = [pc EXCEPT ![t] = "new_start"]
    /\ \E o \in Outcomes : notify' = IF o = "ok" THEN NotifyFlags ELSE notify
    /\ UNCHANGED << mgrVars, fault, loops, via, facade, connOpen, store, nPub,
                    logVars, view, api, exp, pkg >>

\* initializeWithKeyExpirationNotifications: ri.setupKeyExpirationNotifications()
\* (ConfigSet "notify-keyspace-events" "Exg")
NewConfigure(t) ==
    /\ NewStep(t, "new_config", "new_start")
    /\ notify' = IF pc'[t] = "new_start" THEN NotifyFlags ELSE notify

\* NewRedisGk: newListenerKeyEventManager(...); redisGk.listenerKeyEventManager.start()
NewStartManager(t) ==
    /\ fault = "none" /\ pc[t] = "new_start"
    /\ pc' = [pc EXCEPT ![t] = "start_enter"]
    /\ UNCHANGED << mgrVars, fault, loops, via, facade, connOpen, envVars, logVars, view, api, exp, pkg >>

\* NewRedisGk: return redisGk, nil
NewReturn(t) ==
    /\ fault = "none" /\ pc[t] = "new_ret"
    /\ facade' = "ready"
    /\ via' = [via EXCEPT ![t] = "none"]
    /\ pc' = [pc EXCEPT ![t] = "idle"]
    /\ UNCHANGED << mgrVars, fault, loops, connOpen, envVars, logVars, view, api, exp, pkg >>

\* a Close() that closes the connection without stopping the manager first
CallCloseConnFirst(t) ==
    /\ fault = "none" /\ pc[t] = "idle" /\ facade = "ready"
    /\ via' = [via EXCEPT ![t] = "Close"]
    /\ pc' = [pc EXCEPT ![t] = "close_conn"]
    /\ UNCHANGED << mgrVars, fault, loops, facade, connOpen, envVars, logVars, view, api, exp, pkg >>

\* Close(): v.listenerKeyEventManager.stop()
CallClose(t) ==
    /\ fault = "none" /\ pc[t] = "idle" /\ facade = "ready"
    /\ via' = [via EXCEPT ![t] = "Close"]
    /\ pc' = [pc EXCEPT ![t] = "stop_enter"]
    /\ UNCHANGED << mgrVars, fault, loops, facade, connOpen, envVars, logVars, view, api, exp, pkg >>

\* Close(): return v.redisClient.Close()
CloseConn(t) ==
    /\ fault = "none" /\ pc[t] = "close_conn"
    /\ connOpen' = FALSE
    /\ via' = [via EXCEPT ![t] = "none"]
    /\ pc' = [pc EXCEPT ![t] = "idle"]
    /\ UNCHANGED << mgrVars, fault, loops, facade, envVars, logVars, view, api, exp, pkg >>

\* a caller inside the package invokes em.start()
CallStart(t) ==
    /\ fault = "none" /\ pc[t] = "idle"
    /\ pc' = [pc EXCEPT ![t] = "start_enter"]
    /\ UNCHANGED << mgrVars, fault, loops, via, facade, connOpen, envVars, logVars, view, api, exp, pkg >>

\* a caller inside the package invokes em.stop()
CallStop(t) ==
    /\ fault = "none" /\ pc[t] = "idle"
    /\ pc' = [pc EXCEPT ![t] = "stop_enter"]
    /\ UNCHANGED << mgrVars, fault, loops, via, facade, connOpen, envVars, logVars, view, api, exp, pkg >>

(* ---------------------------- key normalizer --------------------------- *)
\* A string is a sequence of one-character strings.
Str(n, alphabet) == UNION { [1..m -> alphabet] : m \in 0..n }

\* strings.ToLower, on the letters the inputs use
LowerChar(c) ==
    CASE c = "A" -> "a" [] c = "U" -> "u" [] c = "P" -> "p" [] c = "N" -> "n"
      [] OTHER -> c
ToLower(s) == [i \in 1..Len(s) |-> LowerChar(s[i])]

\* the characters of the class [\*\?\[\]\.]
MetaChars == {"*", "?", "[", "]", "."}
\* re01.ReplaceAllString(keys, "")
RemoveMeta(s) == SelectSeq(s, LAMBDA c : c \notin MetaChars)

\* re02.ReplaceAllString(keys, ":"): every run of two or more ':' becomes one ':'
RECURSIVE CollapseColons(_)
CollapseColons(s) ==
    IF Len(s) <= 1 THEN s
    ELSE IF s[1] = ":" /\ s[2] = ":" THEN CollapseColons(Tail(s))
    ELSE << s[1] >> \o CollapseColons(Tail(s))

\* strings.ReplaceAll(keys, " ", "_")
ReplaceSpaces(s) == [i \in 1..Len(s) |-> IF s[i] = " " THEN "_" ELSE s[i]]

\* strings.Trim(keys, ":")
RECURSIVE TrimLeft(_)
TrimLeft(s) == IF s # << >> /\ s[1] = ":" THEN TrimLeft(Tail(s)) ELSE s
RECURSIVE TrimRight(_)
TrimRight(s) ==
    IF s # << >> /\ s[Len(s)] = ":" THEN TrimRight(SubSeq(s, 1, Len(s) - 1)) ELSE s
TrimColons(s) == TrimRight(TrimLeft(s))

\* const maxSizeData = 512 * 1024 * 1024, scaled to the model's strings
maxSizeData == 20

\* if len(keys) > maxSizeData { keys = keys[:maxSizeData] }
Truncate(s) == IF Len(s) > maxSizeData THEN SubSeq(s, 1, maxSizeData) ELSE s

\* the rewriting steps of pathRedisController, before its length check
normalizeSteps(key) ==
    TrimColons(ReplaceSpaces(CollapseColons(RemoveMeta(ToLower(key)))))

\* pathRedisController normalizes a key
pathRedisController(key) ==
    IF key = << >> THEN << >>
    ELSE Truncate(normalizeSteps(key))

\* strings.Join(keySlice, ":")
RECURSIVE Join(_)
Join(segs) ==
    IF segs = << >> THEN << >>
    ELSE IF Len(segs) = 1 THEN segs[1]
    ELSE segs[1] \o << ":" >> \o Join(Tail(segs))

\* checkMaxSizeKey
checkMaxSizeKey(key) ==
    IF Len(key) > maxSizeData THEN "key size exceeds Redis limit" ELSE "nil"

\* a []string: nil, or its elements
NilSlice == [isNil |-> TRUE, elems |-> << >>]
Slice(segs) == [isNil |-> FALSE, elems |-> segs]
NoKeyPath == << >>

\* slicePathsConvertor that accepts an empty normalization result
slicePathsConvertorNoEmptyCheck(keySlice) ==
    IF keySlice.isNil THEN [key |-> NoKeyPath, err |-> "keySlice is nil"]
    ELSE IF Len(keySlice.elems) = 0 THEN [key |-> NoKeyPath, err |-> "keySlice is empty"]
    ELSE IF \E i \in 1..Len(keySlice.elems) : keySlice.elems[i] = << >>
         THEN [key |-> NoKeyPath, err |-> "element in keySlice is empty"]
    ELSE LET keyPath == pathRedisController(Join(keySlice.elems)) IN
         IF checkMaxSizeKey(keyPath) # "nil"
              THEN [key |-> NoKeyPath, err |-> checkMaxSizeKey(keyPath)]
         ELSE [key |-> keyPath, err |-> "nil"]

\* slicePathsConvertor: (keyPath, nil) or ("", error)
slicePathsConvertor(keySlice) ==
    IF keySlice.isNil THEN [key |-> NoKeyPath, err |-> "keySlice is nil"]
    ELSE IF Len(keySlice.elems) = 0 THEN [key |-> NoKeyPath, err |-> "keySlice is empty"]
    ELSE IF \E i \in 1..Len(keySlice.elems) : keySlice.elems[i] = << >>
         THEN [key |-> NoKeyPath, err |-> "element in keySlice is empty"]
    ELSE LET keyPath == pathRedisController(Join(keySlice.elems)) IN
         IF keyPath = << >>
              THEN [key |-> NoKeyPath, err |-> "key normalization result is empty"]
         ELSE IF checkMaxSizeKey(keyPath) # "nil"
              THEN [key |-> NoKeyPath, err |-> checkMaxSizeKey(keyPath)]
         ELSE [key |-> keyPath, err |-> "nil"]

(* --------------------- calls of the stateless functions ---------------- *)
\* lengths of the keys and of the path segments tried
MaxKeyLen == 4
MaxSegLen == 2
MaxSegs == 2
MaxDelPaths == 2
MaxHostChars == 4
MaxScan == 3
MaxCalls == 3

KeyAlphabet == {":", " ", "*", "A", "a", "!"}
SegAlphabet == {":", " ", "*", "a"}

\* a key one character over the ceiling, with ':' as the last character kept
OversizeKey == [i \in 1..(maxSizeData + 1) |-> IF i = maxSizeData THEN ":" ELSE "a"]
\* the segments "User Profile", "Name!"
ScenarioSegs ==
    << << "U", "s", "e", "r", " ", "P", "r", "o", "f", "i", "l", "e" >>,
       << "N", "a", "m", "e", "!" >> >>

KeyInputs == Str(MaxKeyLen, KeyAlphabet) \cup {OversizeKey, Join(ScenarioSegs)}
SliceInputs ==
    {NilSlice} \cup { Slice(l) : l \in Str(MaxSegs, Str(MaxSegLen, SegAlphabet)) }
       \cup { Slice(ScenarioSegs), Slice(<< OversizeKey >>) }

\* the instance is nil
RecvNil == "nil"
RecvOk == "instance"
Receivers == {RecvNil, RecvOk}

\* the methods of *RedisGk that begin with
\* if v == nil { return ..., fmt.Errorf("RedisGk instance is nil") }
NilCheckedOps ==
    { "LPush", "RPush", "LPop", "RPop", "LRange", "LLen",
      "SetObj", "SetString", "GetObj", "GetString", "Del", "FindObj", "GetKeys",
      "Exists" }
\* FindKeyByPattern: if v == nil || v.redisClient == nil, with its own message
NilCheckedOtherOps == { "FindKeyByPattern" }
\* ListenChannelKeyEventManager: if v == nil { return nil }
NilReturningOps == { "ListenChannelKeyEventManager" }
\* Close and GetRedisClient read a field of v with no check of v
UncheckedOps == { "Close", "GetRedisClient" }
EntryPoints ==
    NilCheckedOps \cup NilCheckedOtherOps \cup NilReturningOps \cup UncheckedOps

\* what an entry point does first, given its receiver
entryOnReceiver(op, v) ==
    IF v # RecvNil THEN [kind |-> "proceeds", err |-> "nil"]
    ELSE IF op \in NilCheckedOps
         THEN [kind |-> "error", err |-> "RedisGk instance is nil"]
    ELSE IF op \in NilCheckedOtherOps
         THEN [kind |-> "error", err |-> "listener key event manager or client is nil"]
    ELSE IF op \in NilReturningOps
         THEN [kind |-> "nil value", err |-> "nil"]
    ELSE [kind |-> "fault", err |-> "nil pointer dereference"]

CallEntryPoint(op, v) ==
    /\ api = NoCall
    /\ api' = [op |-> "entry", in |-> [name |-> op, recv |-> v],
               out |-> entryOnReceiver(op, v)]
    /\ UNCHANGED << mgrVars, fault, loops, pc, via, facade, connOpen, envVars,
                    logVars, view, exp, pkg >>

CallPathRedisController(key) ==
    /\ api = NoCall
    /\ api' = [op |-> "pathRedisController", in |-> key,
               out |-> pathRedisController(key)]
    /\ UNCHANGED << mgrVars, fault, loops, pc, via, facade, connOpen, envVars,
                    logVars, view, exp, pkg >>

CallSlicePathsConvertor(keySlice) ==
    /\ api = NoCall
    /\ api' = [op |-> "slicePathsConvertor", in |-> keySlice,
               out |-> slicePathsConvertor(keySlice)]
    /\ UNCHANGED << mgrVars, fault, loops, pc, via, facade, connOpen, envVars,
                    logVars, view, exp, pkg >>

(* ------------------------- connection descriptor ----------------------- *)
LowerLetters ==
    { "a", "b", "c", "d", "e", "f", "g", "h", "i", "j", "k", "l", "m",
      "n", "o", "p", "q", "r", "s", "t", "u", "v", "w", "x", "y", "z" }
UpperLetters ==
    { "A", "B", "C", "D", "E", "F", "G", "H", "I", "J", "K", "L", "M",
      "N", "O", "P", "Q", "R", "S", "T", "U", "V", "W", "X", "Y", "Z" }
DigitChars == << "0", "1", "2", "3", "4", "5", "6", "7", "8", "9" >>
Digits == { DigitChars[i] : i \in 1..10 }
DigitVal(c) == (CHOOSE i \in 1..10 : DigitChars[i] = c) - 1
HexDigits == Digits \cup { "a", "b", "c", "d", "e", "f", "A", "B", "C", "D", "E", "F" }

\* strings.Split(s, sep) for a one-character separator
RECURSIVE Split(_, _)
Split(s, sep) ==
    IF \A i \in 1..Len(s) : s[i] # sep THEN << s >>
    ELSE LET i == CHOOSE i \in 1..Len(s) :
                     s[i] = sep /\ \A j \in 1..(i - 1) : s[j] # sep
         IN << SubSeq(s, 1, i - 1) >> \o Split(SubSeq(s, i + 1, Len(s)), sep)

\* the number a string of decimal digits writes
RECURSIVE NumVal(_)
NumVal(p) ==
    IF Len(p) = 0 THEN 0
    ELSE 10 * NumVal(SubSeq(p, 1, Len(p) - 1)) + DigitVal(p[Len(p)])

\* net.ParseIP on dotted decimal: four fields of 1 to 3 digits, each at most
\* 255 and without a leading zero
IsIPv4(s) ==
    LET f == Split(s, ".") IN
    /\ Len(f) = 4
    /\ \A i \in 1..4 :
          /\ Len(f[i]) \in 1..3
          /\ \A j \in 1..Len(f[i]) : f[i][j] \in Digits
          /\ Len(f[i]) > 1 => f[i][1] # "0"
          /\ NumVal(f[i]) <= 255

\* a run of ':'-separated groups of 1 to 4 hex digits, or nothing
HexGroups(s) ==
    \/ s = << >>
    \/ LET g == Split(s, ":") IN
       \A i \in 1..Len(g) :
          Len(g[i]) \in 1..4 /\ \A j \in 1..Len(g[i]) : g[i][j] \in HexDigits
NumGroups(s) == IF s = << >> THEN 0 ELSE Len(Split(s, ":"))

\* net.ParseIP on the IPv6 forms short enough to occur here: those with one
\* "::", hex groups on either side, at most seven groups in all.  (The forms
\* with eight groups or an embedded IPv4 tail need 15 and 9 characters.)
IsIPv6(s) ==
    LET E == { i \in 1..(Len(s) - 1) : s[i] = ":" /\ s[i + 1] = ":" } IN
    /\ Cardinality(E) = 1
    /\ LET e == CHOOSE i \in E : TRUE
           left == SubSeq(s, 1, e - 1)
           right == SubSeq(s, e + 2, Len(s))
       IN /\ HexGroups(left) /\ HexGroups(right)
          /\ NumGroups(left) + NumGroups(right) <= 7

\* net.ParseIP(host) != nil
ParseIP(s) == IsIPv4(s) \/ IsIPv6(s)

Localhost == << "l", "o", "c", "a", "l", "h", "o", "s", "t" >>
\* len(host) > 253, len(part) > 63
maxHostLen == 253
maxLabelLen == 63

\* isValidHost
isValidHost(host) ==
    IF host = << >> THEN FALSE
    ELSE IF host = Localhost \/ ParseIP(host) THEN TRUE
    ELSE IF Len(host) > maxHostLen THEN FALSE
    ELSE LET parts == Split(host, ".") IN
         \A i \in 1..Len(parts) :
            LET part == parts[i] IN
            /\ ~(Len(part) = 0 \/ Len(part) > maxLabelLen)
            /\ \A j \in 1..Len(part) :
                  part[j] \in LowerLetters \cup Digits \cup {"-"}
            /\ ~(part[1] = "-" \/ part[Len(part)] = "-")

\* hosts tried: every string up to MaxHostChars over HostAlphabet, and the
\* names at the length limits
HostAlphabet == { "a", "A", "1", "-", ".", ":" }
\* n times 'a' in labels of at most maxLabelLen, separated by dots
DottedName(n) ==
    [i \in 1..n |-> IF i % (maxLabelLen + 1) = 0 THEN "." ELSE "a"]
HostInputs ==
    Str(MaxHostChars, HostAlphabet) \cup
    { Localhost,
      << "1", ".", "1", ".", "1", ".", "1" >>,
      << "2", "5", "6", ".", "1", ".", "1", ".", "1" >>,
      << "1", ".", "1", ".", "1" >>,
      [i \in 1..maxLabelLen |-> "a"],
      [i \in 1..(maxLabelLen + 1) |-> "a"],
      DottedName(maxHostLen), DottedName(maxHostLen + 1) }

CallIsValidHost(host) ==
    /\ api = NoCall
    /\ api' = [op |-> "isValidHost", in |-> host, out |-> isValidHost(host)]
    /\ UNCHANGED << mgrVars, fault, loops, pc, via, facade, connOpen, envVars,
                    logVars, view, exp, pkg >>

\* the descriptors tried: RedisConfConn's Host, Port, Password and DB
ConfHosts == { << >>, Localhost, << "a" >>, << "A" >>, << "-" >> }
ConfPorts == { -1, 0, 80, 1023, 1024, 6379, 65535, 65536, 70000 }
ConfPasswords == { "", "secret" }
ConfDBs == { -1, 0, 1, 999999 }
ConfInputs ==
    [Host : ConfHosts, Port : ConfPorts, Password : ConfPasswords, DB : ConfDBs]
\* RedisConfConn{}
ZeroConf == [Host |-> << >>, Port |-> 0, Password |-> "", DB |-> 0]

\* validateRedisConfConn with the host and password checks only and the
\* lower port limit
validateRedisConfConnNoRange(conf) ==
    IF conf.Host = << >> THEN "host is required"
    ELSE IF conf.Port = 0 THEN "port is required"
    ELSE IF conf.Port < 1024 THEN "port must be >= 1024"
    ELSE IF conf.Password = "" THEN "password is required"
    ELSE "nil"

\* validateRedisConfConn: the error it returns, "nil" for none
validateRedisConfConn(conf) ==
    IF conf.Host = << >> THEN "host is required"
    ELSE IF ~isValidHost(conf.Host) THEN "invalid host"
    ELSE IF conf.Port = 0 THEN "port is required"
    ELSE IF conf.Port < 1 \/ conf.Port > 65535 THEN "port must be in range 1-65535"
    ELSE IF conf.Port < 1024 THEN "port must be >= 1024"
    ELSE IF conf.Password = "" THEN "password is required"
    ELSE IF conf.DB < 0 THEN "DB must be >= 0"
    ELSE "nil"

CallValidateRedisConfConn(conf) ==
    /\ api = NoCall
    /\ api' = [op |-> "validateRedisConfConn", in |-> conf,
               out |-> validateRedisConfConn(conf)]
    /\ UNCHANGED << mgrVars, fault, loops, pc, via, facade, connOpen, envVars,
                    logVars, view, exp, pkg >>

\* the database index written in the names of the channels start() subscribes to
SubscribedDb == 0

\* what newRedisClientConnector returns and did.  handle: the *redis.Client
\* returned is not nil; created: redis.NewClient was called; pinged: a Ping on
\* the client succeeded; DB: the database the client's commands go to;
\* events: the database whose key events the manager of this client will
\* subscribe to
ConnectorResult(err, handle, created, pinged, db) ==
    [err |-> err, handle |-> handle, created |-> created, pinged |-> pinged,
     DB |-> db, events |-> IF handle THEN SubscribedDb ELSE 0]

\* newRedisClientConnector that returns the client without testing it
newRedisClientConnectorNoPing(conf, ping) ==
    IF conf = ZeroConf
    THEN ConnectorResult("configuration is empty", FALSE, FALSE, FALSE, 0)
    ELSE LET redisNDb == IF conf.DB > 0 THEN conf.DB ELSE 0 IN
         IF validateRedisConfConn(conf) # "nil"
         THEN ConnectorResult(validateRedisConfConn(conf), FALSE, FALSE, FALSE, 0)
         ELSE ConnectorResult("nil", TRUE, TRUE, FALSE, redisNDb)

\* newRedisClientConnector; ping is how client.Ping(ctx) of
\* testRedisConnection ends if it is reached
newRedisClientConnector(conf, ping) ==
    IF conf = ZeroConf
    THEN ConnectorResult("configuration is empty", FALSE, FALSE, FALSE, 0)
    ELSE LET redisNDb == IF conf.DB > 0 THEN conf.DB ELSE 0 IN
         IF validateRedisConfConn(conf) # "nil"
         THEN ConnectorResult(validateRedisConfConn(conf), FALSE, FALSE, FALSE, 0)
         ELSE IF ping # "ok"
              THEN ConnectorResult("error: Redis connection error", FALSE, TRUE,
                                   FALSE, 0)
              ELSE ConnectorResult("nil", TRUE, TRUE, TRUE, redisNDb)

CallNewRedisClientConnector(conf, ping) ==
    /\ api = NoCall
    /\ api' = [op |-> "newRedisClientConnector", in |-> conf, ping |-> ping,
               out |-> newRedisClientConnector(conf, ping)]
    /\ UNCHANGED << mgrVars, fault, loops, pc, via, facade, connOpen, envVars,
                    logVars, view, exp, pkg >>

\* the paths Del is tried on: a usable one, one that normalizes to nothing,
\* one with an empty segment, an empty list and a nil list
DelSlices ==
    { Slice(<< << "a" >> >>), Slice(<< << "*" >> >>), Slice(<< << "a" >>, << >> >>),
      Slice(<< >>), NilSlice }
DelInputs == Str(MaxDelPaths, DelSlices)
\* client.Del(ctx, keys...).Result(): an error, or the number of keys removed
DelResults == { [failed |-> TRUE, n |-> 0] } \cup [failed : {FALSE}, n : {0, 1}]

\* Del: every path is converted before the one DEL command is issued; r is
\* what the store answers if the command is issued.  cmds: the commands the
\* call sent to the store.
Del(v, keyPath, r) ==
    IF v = RecvNil THEN [err |-> "RedisGk instance is nil", cmds |-> << >>]
    ELSE IF Len(keyPath) = 0
         THEN [err |-> "no keys specified for deletion", cmds |-> << >>]
    ELSE LET conv == [i \in 1..Len(keyPath) |-> slicePathsConvertor(keyPath[i])] IN
         IF \E i \in 1..Len(keyPath) : conv[i].err # "nil"
         THEN [err |-> "key conversion error", cmds |-> << >>]
         ELSE LET cmd == [name |-> "DEL",
                          keys |-> [i \in 1..Len(keyPath) |-> conv[i].key]] IN
              IF r.failed THEN [err |-> "error deleting keys", cmds |-> << cmd >>]
              ELSE IF r.n = 0
                   THEN [err |-> "none of the specified keys were found for deletion",
                         cmds |-> << cmd >>]
              ELSE [err |-> "nil", cmds |-> << cmd >>]

CallDel(v, keyPath, r) ==
    /\ api = NoCall
    /\ api' = [op |-> "Del", in |-> [recv |-> v, keyPath |-> keyPath],
               out |-> Del(v, keyPath, r)]
    /\ UNCHANGED << mgrVars, fault, loops, pc, via, facade, connOpen, envVars,
                    logVars, view, exp, pkg >>

(* --------------------------- FindKeyByPattern --------------------------- *)
\* how client.Get(ctx, key).Result() ends for a scanned key: with its value,
\* with redis.Nil (the key is gone since the scan), or with another error
ReadOutcomes == { "value", "redis.Nil", "error" }
\* what SCAN yielded: up to MaxScan keys, the i-th named i, each with the
\* outcome its read will have
ScanInputs ==
    UNION { [1..n -> ReadOutcomes] : n \in 0..MaxScan }

\* (v *RedisGk) getKeyValue: redis.Nil and every other error come back
\* wrapped in a new error
RedisGk_getKeyValue(key, read) ==
    IF read = "redis.Nil" THEN [value |-> "", err |-> "key not found"]
    ELSE IF read = "error" THEN [value |-> "", err |-> "failed to get key value"]
    ELSE [value |-> "v", err |-> "nil"]

\* the for iter.Next(ctx) loop of FindKeyByPattern from the i-th scanned key
RECURSIVE FindFrom(_, _, _)
FindFrom(scan, i, iterErr) ==
    IF i > Len(scan)
    THEN IF iterErr THEN [key |-> 0, value |-> "", err |-> "scan error"]
         ELSE [key |-> 0, value |-> "", err |-> "no keys found for pattern"]
    ELSE LET r == RedisGk_getKeyValue(i, scan[i]) IN
         IF r.err # "nil"
         THEN IF r.err = "redis.Nil" THEN FindFrom(scan, i + 1, iterErr)
              ELSE [key |-> i, value |-> "", err |-> "failed to get value for key"]
         ELSE [key |-> i, value |-> r.value, err |-> "nil"]

\* FindKeyByPattern on a non-nil facade; iterErr: iter.Err() is not nil
FindKeyByPattern(scan, iterErr) == FindFrom(scan, 1, iterErr)

CallFindKeyByPattern(scan, iterErr) ==
    /\ api = NoCall
    /\ api' = [op |-> "FindKeyByPattern", in |-> scan, iterErr |-> iterErr,
               out |-> FindKeyByPattern(scan, iterErr)]
    /\ UNCHANGED << mgrVars, fault, loops, pc, via, facade, connOpen, envVars,
                    logVars, view, exp, pkg >>

(* --------------------------- specifications ---------------------------- *)
ManagerStep ==
    \/ \E t \in Threads :
         \/ StartEnter(t) \/ StartSubscribe(t) \/ StartSpawn(t) \/ StartReturn(t)
         \/ StopEnter(t) \/ StopCancel(t) \/ StopWait(t) \/ StopClose(t)
         \/ StopReturn(t)
    \/ \E g \in LoopIds :
         \/ LoopSelectDone(g) \/ LoopRecv(g) \/ LoopProcess(g)
         \/ LoopSendDone(g) \/ LoopClosePubSub(g) \/ LoopWgDone(g)
    \/ \E g \in LoopIds, c \in Consumers : LoopSend(g, c)

\* the subscription's transport ending under a running loop
TransportStep ==
    \E g \in LoopIds : TransportClose(g) \/ LoopRecvClosed(g)

StoreStep ==
    \/ \E k \in Keys, v \in Values : StoreSet(k, v)
    \/ \E k \in Keys : StoreExpire(k) \/ StoreExpired(k) \/ StoreDel(k)
    \/ \E k \in Keys, ch \in OtherChannels : StoreOther(ch, k)

\* the program as its public surface drives it: NewRedisGk starts the manager
\* once, Close() stops it, from any number of goroutines
FacadeStep ==
    \E t \in Threads :
       \/ CallNew(t) \/ NewConnect(t) \/ NewPing(t) \/ NewConfigure(t)
       \/ NewStartManager(t) \/ NewReturn(t) \/ CallClose(t) \/ CloseConn(t)

Next ==
    \/ FacadeStep
    \/ ManagerStep
    \/ StoreStep
    \/ TransportStep

Spec == Init /\ [][Next]_vars

\* a store that holds no key when the manager is constructed
InitMgr == Init /\ store = [k \in Keys |-> NoKey]

\* Scheduling: a goroutine that can run does run (the stop() caller past its
\* lock, the loop's own steps), and Go's select chooses uniformly among its
\* ready cases, so a cancellation case that is ready again and again is taken.
\* Nothing is assumed of the consumers or of the store.
Fairness ==
    /\ \A t \in Threads :
          /\ WF_vars(StopCancel(t)) /\ WF_vars(StopWait(t))
          /\ WF_vars(StopClose(t)) /\ WF_vars(StopReturn(t))
    /\ \A g \in LoopIds :
          /\ WF_vars(LoopProcess(g))
          /\ SF_vars(LoopSelectDone(g)) /\ SF_vars(LoopSendDone(g))
          /\ WF_vars(LoopClosePubSub(g)) /\ WF_vars(LoopWgDone(g))

\* the facade's lifecycle with a store that starts empty and publishes one
\* recognised and one unrecognised kind of message
NextLive ==
    \/ FacadeStep
    \/ ManagerStep
    \/ \E k \in Keys : StoreSet(k, "v")
    \/ \E k \in Keys : StoreOther(Channel(KeyEventPrefix, "rename_from"), k)

SpecLive == InitMgr /\ [][NextLive]_vars /\ Fairness

\* the manager alone, under every sequence of start() and stop() calls
NextMgr ==
    \/ \E t \in Threads : CallStart(t) \/ CallStop(t)
    \/ ManagerStep
    \/ \E k \in Keys, v \in Values : StoreSet(k, v)
    \/ \E k \in Keys, ch \in OtherChannels : StoreOther(ch, k)

SpecMgr == InitMgr /\ [][NextMgr]_vars

\* the manager under every sequence of start() and stop() calls, with readers
\* that ask for the event channel at any time
NextChan ==
    \/ NextMgr
    \/ \E c \in Consumers : getKeyEventChannel(c)

SpecChan == InitMgr /\ [][NextChan]_vars

\* the facade's lifecycle with consumers that ask for the event channel at
\* any time and receive from it
NextFan ==
    \/ NextLive
    \/ \E c \in Consumers : getKeyEventChannel(c)

SpecFan == InitMgr /\ [][NextFan]_vars

\* the functions that keep no state, each called once on every input tried
NextApi ==
    \/ api = NoCall /\ \E op \in EntryPoints, v \in Receivers : CallEntryPoint(op, v)
    \/ api = NoCall /\ \E key \in KeyInputs : CallPathRedisController(key)
    \/ api = NoCall /\ \E keySlice \in SliceInputs : CallSlicePathsConvertor(keySlice)
    \/ api = NoCall /\ \E host \in HostInputs : CallIsValidHost(host)
    \/ api = NoCall /\ \E conf \in ConfInputs : CallValidateRedisConfConn(conf)
    \/ api = NoCall /\ \E conf \in ConfInputs, ping \in Outcomes :
          CallNewRedisClientConnector(conf, ping)
    \/ api = NoCall /\ \E scan \in ScanInputs, iterErr \in BOOLEAN :
          CallFindKeyByPattern(scan, iterErr)
    \/ api = NoCall /\ \E v \in Receivers, keyPath \in DelInputs, r \in DelResults :
          CallDel(v, keyPath, r)

SpecApi == InitMgr /\ [][NextApi]_vars

(* -------------------- the once-initialised connector ------------------- *)
\* redis.NewClient(opts) with DB: max(conf.DB, 0)
NewClient(conf) == [nil |-> FALSE, DB |-> IF conf.DB > 0 THEN conf.DB ELSE 0]

\* the function handed to redisOnce.Do: on a validation error it returns with
\* err set and redisClient untouched, else it assigns redisClient
onceBody(conf) ==
    IF validateRedisConfConn(conf) # "nil"
    THEN [err |-> validateRedisConfConn(conf), redisClient |-> pkg.redisClient]
    ELSE [err |-> "nil", redisClient |-> NewClient(conf)]

\* newRedisClientConnector of the singleton variant: var err error;
\* redisOnce.Do(func() {...}); return redisClient, err.  Do runs the function
\* on the first call only; on every later call err keeps its zero value.
newRedisClientConnectorOnce(conf) ==
    /\ pkg.n < MaxCalls
    /\ LET r == IF pkg.redisOnce
                THEN [err |-> "nil", redisClient |-> pkg.redisClient]
                ELSE onceBody(conf) IN
         pkg' = [redisOnce |-> TRUE, redisClient |-> r.redisClient, n |-> pkg.n + 1,
                 last |-> << [in |-> conf,
                              out |-> [client |-> r.redisClient, err |-> r.err]] >>]
    /\ UNCHANGED << mgrVars, fault, loops, pc, via, facade, connOpen, envVars,
                    logVars, view, api, exp >>

\* every sequence of newRedisClientConnector calls of one process
NextOnce == \E conf \in ConfInputs : newRedisClientConnectorOnce(conf)

SpecOnce == Init /\ [][NextOnce]_vars

(* -------------------------- expirationManager -------------------------- *)
\* The server hands a message to the subscription when it is open and the
\* message's channel is the one subscribed.
ExpPublish(ch, k) ==
    /\ nPub' = nPub + 1
    /\ exp' = IF exp.subOpen /\ ch = ExpirationChannel
              THEN [exp EXCEPT !.queue =
                       Append(@, [id |-> nPub + 1, Channel |-> ch, Payload |-> k])]
              ELSE exp

ExpRest == << mgrVars, fault, loops, pc, via, facade, connOpen, logVars, notify,
              view, api, pkg >>

\* SET k v
ExpStoreSet(k, v) ==
    /\ exp.fault = "none" /\ nPub < MaxPub
    /\ store' = [store EXCEPT ![k] = [exists |-> TRUE, ttl |-> FALSE, val |-> v]]
    /\ ExpPublish(Channel(KeyEventPrefix, "set"), k)
    /\ UNCHANGED ExpRest

\* EXPIRE k n on a live key: a TTL is assigned, the key stays
ExpStoreExpire(k) ==
    /\ exp.fault = "none" /\ nPub < MaxPub
    /\ store[k].exists
    /\ store' = [store EXCEPT ![k].ttl = TRUE]
    /\ ExpPublish(Channel(KeyEventPrefix, "expire"), k)
    /\ UNCHANGED ExpRest

\* the TTL of k ran out: the store removes the key
ExpStoreExpired(k) ==
    /\ exp.fault = "none" /\ nPub < MaxPub
    /\ store[k].exists /\ store[k].ttl
    /\ store' = [store EXCEPT ![k] = NoKey]
    /\ ExpPublish(Channel(KeyEventPrefix, "expired"), k)
    /\ UNCHANGED ExpRest

\* start(): under the lock, subscribe, spawn the loop, set isRunning
ExpStart ==
    /\ exp.fault = "none"
    /\ ~exp.isRunning /\ ~exp.stopping
    /\ exp' = [exp EXCEPT !.subOpen = TRUE, !.queue = << >>, !.pc = "select",
                          !.isRunning = TRUE]
    /\ UNCHANGED << ExpRest, store, nPub >>

\* case msg := <-pubsub.Channel(): a message of the filtered channel becomes a
\* KeyExpirationEvent with the value read now ("" when the read fails); any
\* other message is dropped.  (cause, live: the message's event and whether
\* the key existed when the event was built.)
ExpLoopRecv ==
    /\ exp.fault = "none"
    /\ exp.pc = "select" /\ Len(exp.queue) > 0
    /\ LET msg == Head(exp.queue) IN
       IF msg.Channel = ExpirationChannel
       THEN \E r \in GetResults(msg.Payload) :
               exp' = [exp EXCEPT !.queue = Tail(@), !.pc = "forward",
                          !.ev = [Key |-> msg.Payload,
                                  Value |-> IF r.err = "none" THEN r.val ELSE "",
                                  cause |-> msg.Channel.name,
                                  live |-> store[msg.Payload].exists]]
       ELSE exp' = [exp EXCEPT !.queue = Tail(@)]
    /\ UNCHANGED << ExpRest, store, nPub >>

\* case em.expirationChan <- event: the consumer takes the event; a send on
\* the channel stop() closed panics
ExpLoopSend ==
    /\ exp.fault = "none"
    /\ exp.pc = "forward"
    /\ exp' = IF exp.closed
              THEN [exp EXCEPT !.fault = "send on closed channel"]
              ELSE [exp EXCEPT !.out = Append(@, exp.ev), !.ev = NoEvent,
                               !.pc = "select"]
    /\ UNCHANGED << ExpRest, store, nPub >>

\* case <-em.ctx.Done() in either select: return; the deferred pubsub.Close()
\* and wg.Done() run
ExpLoopDone ==
    /\ exp.fault = "none"
    /\ exp.pc \in {"select", "forward"} /\ exp.ctxDone
    /\ exp' = [exp EXCEPT !.pc = "ended", !.subOpen = FALSE, !.queue = << >>,
                          !.ev = NoEvent]
    /\ UNCHANGED << ExpRest, store, nPub >>

\* stop() up to em.wg.Wait(): lock, isRunning checked, cancel()
ExpStopCancel ==
    /\ exp.fault = "none"
    /\ exp.isRunning /\ ~exp.stopping
    /\ exp' = [exp EXCEPT !.ctxDone = TRUE, !.stopping = TRUE]
    /\ UNCHANGED << ExpRest, store, nPub >>

\* stop() from the return of em.wg.Wait(): close(em.expirationChan) (a second
\* close panics), isRunning = false, unlock
ExpStopReturn ==
    /\ exp.fault = "none"
    /\ exp.stopping /\ exp.pc = "ended"
    /\ exp' = IF exp.closed
              THEN [exp EXCEPT !.fault = "close of closed channel"]
              ELSE [exp EXCEPT !.closed = TRUE, !.isRunning = FALSE,
                               !.stopping = FALSE]
    /\ UNCHANGED << ExpRest, store, nPub >>

NextExp ==
    \/ ExpStart
    \/ ExpLoopRecv
    \/ ExpLoopSend
    \/ ExpLoopDone
    \/ ExpStopCancel
    \/ ExpStopReturn
    \/ \E k \in Keys, v \in Values : ExpStoreSet(k, v)
    \/ \E k \in Keys : ExpStoreExpire(k)
    \/ \E k \in Keys : ExpStoreExpired(k)

SpecExp == Init /\ [][NextExp]_vars

(* ------------------------------- claims -------------------------------- *)
\* the loops that are inside the hand-off select
Sending == { g \in DOMAIN loops : loops[g].pc = "send" }
\* an event whose hand-off was pending was abandoned
PendingDropped == Len(emitted) > Len(delivered) + Cardinality(Sending)

\* C1: drain-before-close. Under every interleaving of message arrival,
\* consumer reads and stop() calls, no receive loop is at (or has panicked in)
\* the send on the hand-off channel once the channel is closed, and the
\* channel is closed (and stop() is at its close statement) only when every
\* receive loop has fully exited.
C1_DrainBeforeClose ==
    /\ fault # "send on closed channel"
    /\ ChanClosed => (Sending = {} /\ LiveLoops = {} /\ wg = 0)
    /\ \A t \in Threads : pc[t] = "stop_close" => LiveLoops = {}

\* C1 witness: the channel has been closed after a loop that was blocked in
\* the hand-off gave the event up and exited.
C1_Witness ==
    /\ ChanClosed /\ PendingDropped
    /\ \E g \in DOMAIN loops : loops[g].pc = "exited"

\* a thread's stop() call on a Running manager returns in this step
StopReturns(t) == pc[t] = "stop_ret" /\ pc'[t] # "stop_ret"

\* C2: when stop() returns on a Running manager, the receive loop has exited,
\* its subscription is closed, the running flag is false, the event channel is
\* closed (a reader gets end-of-sequence) and no fault has occurred, whatever
\* the loop was doing when the cancellation was triggered.
C2_StopPostcondition ==
    [][\A t \in Threads :
         StopReturns(t) =>
           /\ LiveLoops' = {}
           /\ \A g \in DOMAIN loops' : loops'[g].pc = "exited"
           /\ OpenSubs' = {}
           /\ ~isRunning'
           /\ ChanClosed' /\ closes' = 1
           /\ fault' = "none"]_vars

\* C2 witness: stop() has returned inside Close() although a message had been
\* taken and its event was awaiting hand-off when the cancellation came.
C2_Witness ==
    /\ \E t \in Threads : pc[t] = "close_conn"
    /\ ~isRunning /\ ChanClosed /\ fault = "none"
    /\ Len(received) > 0 /\ PendingDropped

\* C3: over any sequence of start() and stop() calls on one manager, a
\* start() after a stop() included, the event channel is closed at most once
\* (no second close statement runs on it), and it has been closed exactly once
\* whenever a stop() of a Running manager is past its close statement.
C3_ClosedAtMostOnce ==
    /\ closes <= 1
    /\ fault # "close of closed channel"
    /\ \A t \in Threads : pc[t] = "stop_ret" => closes = 1

\* C4: stop() cannot deadlock against a stalled consumer. Once stop() has
\* found the manager Running (it is about to cancel), it eventually returns,
\* with no fairness assumed of any consumer: the loop may be waiting for a
\* message or blocked in a hand-off nobody receives.
C4_StopReturns ==
    \A t \in Threads :
       (pc[t] = "stop_cancel") ~> (pc[t] = "close_conn" /\ ~isRunning)

\* C4 witness: stop() is waiting for the loop while the loop is blocked in a
\* hand-off and no event has ever been received by a consumer.
C4_Witness ==
    /\ \E t \in Threads : pc[t] = "stop_wait"
    /\ Sending # {} /\ delivered = << >>

\* C5: start() is idempotent. At any time at most one receive loop is alive and
\* at most one subscription is open; a start() that finds the manager Running
\* takes the return-nil branch and returns having spawned no loop and opened
\* no subscription.
C5_StartIdempotent ==
    /\ [](/\ Cardinality(LiveLoops) <= 1
          /\ Cardinality(OpenSubs) <= 1
          /\ wg <= 1)
    /\ [][\A t \in Threads :
            /\ (pc[t] = "start_enter" /\ pc'[t] # "start_enter" /\ isRunning)
                 => (pc'[t] = "start_noop" /\ loops' = loops /\ wg' = wg)
            /\ (pc[t] = "start_noop" /\ pc'[t] # "start_noop")
                 => (/\ pc'[t] = AfterStart(t)
                     /\ UNCHANGED << isRunning, ctxDone, wg, closes, fault, loops >>)
       ]_vars

\* C5 witness: a second start() has found the manager Running, with the one
\* receive loop alive.
C5_Witness ==
    /\ \E t \in Threads : pc[t] = "start_noop"
    /\ isRunning /\ Cardinality(LiveLoops) = 1 /\ Len(loops) = 1

\* C6: stop() on a Stopped manager is a no-op. A stop() that finds the running
\* flag false takes the return branch, and returns without cancelling, waiting
\* or closing: the flag stays false and every other field is unchanged.
C6_StopNoop ==
    [][\A t \in Threads :
         /\ (pc[t] = "stop_enter" /\ pc'[t] # "stop_enter" /\ ~isRunning)
              => (/\ pc'[t] = "stop_noop"
                  /\ UNCHANGED << isRunning, ctxDone, wg, closes, fault, loops >>)
         /\ (pc[t] = "stop_noop" /\ pc'[t] # "stop_noop")
              => (/\ pc'[t] = AfterStop(t)
                  /\ ~isRunning'
                  /\ UNCHANGED << isRunning, ctxDone, wg, closes, fault, loops,
                                  connOpen, logVars, envVars >>)
    ]_vars

\* C6 witness: stop() on a manager that was never started has taken the
\* return branch; nothing is cancelled and the channel is open.
C6_Witness ==
    /\ \E t \in Threads : pc[t] = "stop_noop"
    /\ loops = << >> /\ ~ctxDone /\ ~ChanClosed /\ ~isRunning

\* C7: no event is lost during shutdown. Once the event channel is closed,
\* every event the loop built from a recognised message has been received by
\* a consumer, an event whose hand-off was pending at stop() included.
C7_NoEventLost ==
    ChanClosed =>
       /\ Len(delivered) = Len(emitted)
       /\ \A i \in 1..Len(emitted) : delivered[i].ev = emitted[i].ev

\* position of the message with this id among the messages the loop took
RecvPos(id) == CHOOSE i \in 1..Len(received) : received[i].id = id

\* C8: events reach the consumers in the order in which their messages were
\* received from the subscription: the loop takes messages in the order the
\* subscription produced them, and of two delivered events the one whose
\* message was taken first was delivered first.
C8_OrderPreserved ==
    /\ \A i, j \in 1..Len(received) : i < j => received[i].id < received[j].id
    /\ \A i, j \in 1..Len(delivered) :
          i < j => RecvPos(delivered[i].ev.src) < RecvPos(delivered[j].ev.src)

\* C8 witness: two events have been delivered.
C8_Witness == Len(delivered) >= 2

\* the messages taken so far that classify as a recognised event
Recognised == SelectSeq(received, LAMBDA m : classify(m.Channel) # EventTypeUnknown)
Processing == { g \in DOMAIN loops : loops[g].pc = "process" }

\* C9: one event per message that passes classification. The events built are,
\* in order, exactly the recognised messages taken (less one still being
\* processed); the delivered events are, in order and without repetition, the
\* first of the events built; and until cancellation every event built is
\* delivered or is the one in hand-off.
C9_OneEventPerMessage ==
    /\ Len(emitted) <= Len(Recognised)
    /\ Len(Recognised) - Len(emitted) <= Cardinality(Processing)
    /\ \A i \in 1..Len(emitted) :
          /\ emitted[i].ev.src = Recognised[i].id
          /\ emitted[i].ev.Key = Recognised[i].Payload
          /\ emitted[i].ev.Channel = Recognised[i].Channel
    /\ Len(delivered) <= Len(emitted)
    /\ \A i \in 1..Len(delivered) : delivered[i].ev = emitted[i].ev
    /\ ~ctxDone => Len(delivered) + Cardinality(Sending) = Len(emitted)

\* C9 witness: of two messages taken, the unrecognised one produced no event
\* and the recognised one produced the one event delivered.
C9_Witness ==
    /\ Len(received) = 2 /\ Len(Recognised) = 1
    /\ Len(emitted) = 1 /\ Len(delivered) = 1
    /\ Processing = {}

ExpireChannel == Channel(KeyEventPrefix, "expire")

SetChannel == Channel(KeyEventPrefix, "set")
DelChannel == Channel(KeyEventPrefix, "del")
ExpiredChannel == Channel(KeyEventPrefix, "expired")

\* C11: direct classification. The event built from a message on the expired
\* channel has type Expired whatever the store holds under the key by then (no
\* query decides it), the event of a set message has type Created and never
\* Updated, the event of a del message has type Deleted, and every event's key
\* is the payload of the message it was built from.
C11_DirectClassification ==
    \A i \in 1..Len(emitted) :
          LET e == emitted[i].ev IN
          /\ e.Channel = ExpiredChannel => e.EventType = EventTypeExpired
          /\ e.Channel = SetChannel =>
                (e.EventType = EventTypeCreated /\ e.EventType # EventTypeUpdated)
          /\ e.Channel = DelChannel => e.EventType = EventTypeDeleted
          /\ e.Key = Recognised[i].Payload

\* C11 witness: an Expired event was built from an expired message although
\* the key was back in the store by then, and a set and a del event exist too.
C11_Witness ==
    /\ \E i \in 1..Len(emitted) :
          /\ emitted[i].ev.Channel = ExpiredChannel
          /\ emitted[i].ttl # "DoesNotExist"
    /\ \E i \in 1..Len(emitted) : emitted[i].ev.Channel = SetChannel

\* the event types of a classified event
RecognisedTypes ==
    { EventTypeExpire, EventTypeExpired, EventTypeCreated, EventTypeDeleted }

\* C12: unknown messages are dropped. Every event built for hand-off and every
\* event a consumer received has a type that is set and is not Unknown, and
\* comes from a recognised channel; the step that processes a message of an
\* unrecognised channel builds no event, delivers nothing and takes the loop
\* back to its select, where the next message is taken.
C12_UnknownDropped ==
    /\ [](/\ \A i \in 1..Len(emitted) :
                /\ emitted[i].ev.EventType \in RecognisedTypes
                /\ emitted[i].ev.EventType # EventTypeUnknown
                /\ classify(emitted[i].ev.Channel) # EventTypeUnknown
          /\ \A i \in 1..Len(delivered) :
                /\ delivered[i].ev.EventType \in RecognisedTypes
                /\ delivered[i].ev.EventType # EventTypeUnknown)
    /\ [][\A g \in LoopIds :
            ( /\ g \in DOMAIN loops /\ loops[g].pc = "process"
              /\ loops[g].msg # NilMsg
              /\ classify(loops[g].msg.Channel) = EventTypeUnknown
              /\ loops'[g].pc # "process" )
            => ( /\ loops'[g].pc = "select"
                 /\ loops'[g].ev = NoEvent
                 /\ emitted' = emitted /\ delivered' = delivered
                 /\ fault' = "none" )
       ]_vars

\* C12 witness: the first message taken was on an unrecognised channel and has
\* no event; the loop went on and the event of the second message was delivered.
C12_Witness ==
    /\ Len(received) = 2
    /\ classify(received[1].Channel) = EventTypeUnknown
    /\ Len(emitted) = 1 /\ Len(delivered) = 1
    /\ delivered[1].ev.src = received[2].id


\* the fields of a KeyEvent (src stands for Timestamp): there is no error field
KeyEventFields == {"Key", "Value", "EventType", "Channel", "src"}

\* C13: a failed value read never aborts the event and never ends the loop.
\* The step that processes a recognised message always builds its event,
\* however the point read of the key ended; an event whose read ended in
\* not-found, an error or a timeout has the empty string as its value and
\* carries no error; and the hand-off of such an event ends either with its
\* delivery, the loop back at its select for the next message, or with the
\* cancellation, never with a fault.
C13_ReadFailureAbsorbed ==
    /\ [](\A g \in Sending :
             /\ DOMAIN loops[g].ev = KeyEventFields
             /\ loops[g].rd # "none" => loops[g].ev.Value = "")
    /\ [][\A g \in LoopIds :
            /\ ( /\ g \in DOMAIN loops /\ loops[g].pc = "process"
                 /\ loops[g].msg # NilMsg
                 /\ classify(loops[g].msg.Channel) # EventTypeUnknown
                 /\ loops'[g].pc # "process" )
               => ( /\ loops'[g].pc = "send"
                    /\ Len(emitted') = Len(emitted) + 1
                    /\ emitted'[Len(emitted')].ev = loops'[g].ev
                    /\ fault' = "none" )
            /\ ( /\ g \in DOMAIN loops /\ loops[g].pc = "send"
                 /\ loops[g].rd # "none"
                 /\ loops'[g].pc # "send" )
               => ( /\ fault' = "none"
                    /\ \/ /\ loops'[g].pc = "select"
                          /\ Len(delivered') = Len(delivered) + 1
                          /\ delivered'[Len(delivered')].ev = loops[g].ev
                          /\ delivered'[Len(delivered')].ev.Value = ""
                       \/ /\ ctxDone /\ loops'[g].pc = "closing" )
       ]_vars

\* C13 witness: the point read failed although the store holds a value under
\* the key; the event is in hand-off with the empty value, after an earlier
\* event was delivered.
C13_Witness ==
    \E g \in Sending :
       /\ loops[g].rd = "failed" /\ loops[g].ev.Value = ""
       /\ store[loops[g].ev.Key].exists /\ store[loops[g].ev.Key].val = "v"
       /\ Len(delivered) = 1


\* C14: getKeyEventChannel() in any manager state returns the one channel made
\* at construction: nothing has been delivered on it before the first start(),
\* it is open when asked for on a manager that was never started or is
\* Running, and it is the closed channel when asked for after stop().
C14_GetEventChannel ==
    /\ Len(loops) = 0 => delivered = << >>
    /\ view # NoView =>
          /\ view.chan = keyEventChan
          /\ view.phase \in {"new", "running"} => ~view.closed
          /\ view.phase = "stopped" => view.closed


\* C15: a subscription that cannot be established is fatal to that start():
\* no receive loop is spawned on it, the manager is not Running with it, and
\* NewRedisGk does not return a facade built on it.
C15_SubscribeFailureFatal ==
    \A g \in DOMAIN loops :
       loops[g].feed = FeedFailed =>
          /\ loops[g].pc = "new"
          /\ ~isRunning
          /\ facade # "ready"


\* C16: when the transport closes the subscription's message channel, the
\* receive loop ends cleanly: it never processes the empty receive as a
\* message and no fault occurs, so a later stop() can complete.
C16_TransportClosureClean ==
    /\ fault # "nil pointer dereference"
    /\ \A g \in Processing : loops[g].msg # NilMsg


\* C17: the manager's lock is never held by a caller that is blocked: start()
\* does not hold it while it opens the subscription, and stop() does not hold
\* it while it waits for the receive loop's completion signal.
C17_LockNotHeldWhileBlocked ==
    \A t \in Threads :
       /\ pc[t] = "start_sub" => mu # t
       /\ (pc[t] = "stop_wait" /\ wg > 0) => mu # t


\* the positions inside start() and stop() past em.mu.Lock()
InsideLock ==
    { "start_sub", "start_spawn", "start_ret", "start_noop",
      "stop_cancel", "stop_wait", "stop_close", "stop_ret", "stop_noop" }

\* C17 (amended): the lock is held across the whole of start() and stop(),
\* their blocking steps included: a caller that opens the subscription or
\* waits for the receive loop holds it, and at most one caller is inside
\* start() or stop() at any time.
C17_LockHeldThroughout ==
    /\ \A t \in Threads : pc[t] \in InsideLock => mu = t
    /\ Cardinality({ t \in Threads : pc[t] \in InsideLock }) <= 1

\* C17 witness: a stop() waits for a receive loop that has not exited and holds
\* the lock, while another caller waits to enter.
C17_Witness ==
    \E t, u \in Threads :
       /\ pc[t] = "stop_wait" /\ wg > 0 /\ mu = t
       /\ pc[u] \in {"start_enter", "stop_enter"}


\* C18: Close() stops the manager before it closes the connection. A Close()
\* is at its connection-close step, and the connection is closed, only when
\* stop() has returned: every receive loop has exited, its subscription is
\* closed, the event channel is closed and the manager is not Running.
C18_StopBeforeConnClose ==
    ( \/ ~connOpen
      \/ \E t \in Threads : pc[t] = "close_conn" )
    => /\ LiveLoops = {} /\ OpenSubs = {}
       /\ ChanClosed /\ ~isRunning
       /\ \A g \in DOMAIN loops : loops[g].pc = "exited"

\* C18 witness: the connection has been closed by a Close() on a manager whose
\* loop had taken a message.
C18_Witness ==
    /\ ~connOpen /\ Len(received) > 0
    /\ \E g \in DOMAIN loops : loops[g].pc = "exited"


\* the positions of a stop() that found the manager Running
StoppingPcs == {"stop_cancel", "stop_wait", "stop_close", "stop_ret"}

\* C19: shutdown through the facade is idempotent. For any number of Close()
\* calls, concurrent or one after another, at most one stop() finds the
\* manager Running, the close statement runs on the event channel once (once
\* the connection is closed it has run exactly once), no call faults on the
\* channel, and a Close() whose stop() comes after the channel was closed takes
\* the return branch and changes nothing of the manager.
C19_CloseIdempotent ==
    /\ [](/\ closes <= 1
          /\ fault \notin {"close of closed channel", "send on closed channel"}
          /\ Cardinality({ t \in Threads : pc[t] \in StoppingPcs }) <= 1
          /\ ~connOpen => closes = 1
          /\ ChanClosed => \A t \in Threads : pc[t] \notin {"stop_cancel", "stop_wait",
                                                             "stop_close"})
    /\ [][\A t \in Threads :
            ( /\ via[t] = "Close" /\ ChanClosed
              /\ pc[t] \in {"stop_enter", "stop_noop"}
              /\ pc'[t] # pc[t] )
            => ( /\ pc'[t] \in {"stop_noop", "close_conn"}
                 /\ UNCHANGED << isRunning, ctxDone, wg, closes, fault, loops >> )
       ]_vars

\* C19 witness: after one Close() has run to its end, the stop() of another
\* Close() has found the manager stopped.
C19_Witness ==
    /\ ~connOpen /\ closes = 1 /\ fault = "none"
    /\ \E t \in Threads : pc[t] = "stop_noop" /\ via[t] = "Close"


\* the positions of NewRedisGk before the manager is started
BeforeStartPcs == {"new_connect", "new_ping", "new_config"}

\* C20: construction goes connect, ping, configure notifications, start the
\* manager. A subscription exists only once the notification setting has been
\* written; while NewRedisGk is at its connect, ping or configure step, and
\* when any of them has failed, the manager has never been started; and in the
\* step in which NewRedisGk returns the facade the manager is Running with its
\* receive loop spawned.
C20_ConstructionOrder ==
    /\ [](/\ Len(loops) > 0 => notify = NotifyFlags
          /\ (\E t \in Threads : pc[t] \in BeforeStartPcs)
                => (loops = << >> /\ ~isRunning /\ wg = 0)
          /\ facade = "failed"
                => (loops = << >> /\ ~isRunning /\ wg = 0 /\ ~ctxDone)
          /\ (\E t \in Threads : pc[t] = "new_start") => notify = NotifyFlags)
    /\ [][(facade # "ready" /\ facade' = "ready")
            => ( /\ isRunning /\ isRunning'
                 /\ Len(loops) = 1 /\ Alive(loops[1])
                 /\ notify = NotifyFlags )
       ]_vars

\* C20 witness: NewRedisGk has returned a facade whose manager is Running and
\* has delivered an event.
C20_Witness ==
    /\ facade = "ready" /\ isRunning /\ notify = NotifyFlags
    /\ Len(delivered) >= 1

\* the errors that say the instance is nil
NilInstanceErrors ==
    { "RedisGk instance is nil", "listener key event manager or client is nil" }

\* C21: every public entry point called on a nil facade returns an
\* 'instance is nil' error and does not fault.
C21_NilInstanceError ==
    (api.op = "entry" /\ api.in.recv = RecvNil)
       => (api.out.kind = "error" /\ api.out.err \in NilInstanceErrors)


\* the flags in a value of notify-keyspace-events
FlagsOf(value) ==
    IF value = NotifyFlags THEN { "E", "x", "g" } ELSE { }

\* the class flag under which the server publishes each subscribed event:
\* set is a string command ($), del and expire are generic commands (g),
\* expired is the expiry event (x)
EventClassFlag(name) ==
    CASE name = "set" -> "$"
      [] name = "del" -> "g"
      [] name = "expire" -> "g"
      [] name = "expired" -> "x"

\* the server publishes on the key-event channel ch under the configuration
Notified(ch, value) ==
    /\ "E" \in FlagsOf(value)
    /\ EventClassFlag(ch.name) \in FlagsOf(value)

\* C22: once the constructor has written the notification configuration, the
\* server publishes every event class the manager subscribes to (expire,
\* expired, set, del).
C22_ConfigEnablesSubscribed ==
    notify = NotifyFlags
       => \A ch \in SubscribedChannels : Notified(ch, notify)


\* C23: the expiration manager listens on the expired channel, and every
\* KeyExpirationEvent it hands over is for a key that has expired, never for a
\* TTL assigned to a key that is still there.
C23_OnlyExpiredKeys ==
    /\ exp.isRunning => ExpirationChannel = Channel(KeyEventPrefix, "expired")
    /\ \A i \in DOMAIN exp.out :
          exp.out[i].cause = "expired" /\ ~exp.out[i].live


\* C25: normalization is idempotent: normalizing the result of a
\* normalization returns it unchanged, for every key.
C25_Idempotent ==
    api.op = "pathRedisController"
       => pathRedisController(api.out) = api.out

\* "user_profile:name"
UserProfileName ==
    << "u", "s", "e", "r", "_", "p", "r", "o", "f", "i", "l", "e", ":",
       "n", "a", "m", "e" >>

\* C26: the segments "User Profile", "Name!" normalize to "user_profile:name",
\* and a normalized key holds no punctuation symbol such as '!'.
C26_PunctuationRemoved ==
    /\ (api.op = "slicePathsConvertor" /\ api.in = Slice(ScenarioSegs))
          => (api.out.err = "nil" /\ api.out.key = UserProfileName)
    /\ api.op = "pathRedisController"
          => \A i \in DOMAIN api.out : api.out[i] # "!"


\* the errors of an invalid key path
InvalidKeyPathErrors ==
    { "keySlice is nil", "keySlice is empty", "element in keySlice is empty",
      "key normalization result is empty" }

\* a path the claim calls invalid: nil or empty, an empty segment, or nothing
\* but meta-characters and separators once joined
InvalidPath(keySlice) ==
    \/ keySlice.isNil
    \/ Len(keySlice.elems) = 0
    \/ \E i \in 1..Len(keySlice.elems) : keySlice.elems[i] = << >>
    \/ \A i \in 1..Len(keySlice.elems) :
          \A j \in 1..Len(keySlice.elems[i]) :
             keySlice.elems[i][j] \in MetaChars \cup {":"}

C28_OversizeRejected ==
    (/\ api.op = "slicePathsConvertor"
     /\ ~InvalidPath(api.in)
     /\ Len(normalizeSteps(Join(api.in.elems))) > maxSizeData)
       => (api.out.err = "key size exceeds Redis limit" /\ api.out.key = NoKeyPath)


\* the positions that bound the labels of a dotted name
LabelBounds(s) == { 0, Len(s) + 1 } \cup { i \in 1..Len(s) : s[i] = "." }

\* a syntactically valid DNS name as the claim describes it
ValidDnsName(s) ==
    /\ Len(s) <= 253
    /\ \A i \in 1..Len(s) :
          s[i] # "." => s[i] \in LowerLetters \cup UpperLetters \cup Digits \cup {"-"}
    /\ \A b \in LabelBounds(s) :
          b <= Len(s)
             => /\ b + 1 \notin LabelBounds(s)
                /\ \E c \in LabelBounds(s) : c > b /\ c - b - 1 <= 63
    /\ \A i \in 1..Len(s) :
          s[i] = "-" => (i - 1 \notin LabelBounds(s) /\ i + 1 \notin LabelBounds(s))

\* C30: host validation accepts a host exactly when it is non-empty and is
\* an IP literal, localhost, or a valid DNS name (at most 253 characters,
\* labels of 1 to 63 letters a-z A-Z, digits and hyphens, no hyphen first or last).
C30_HostAccepted ==
    api.op = "isValidHost"
       => (api.out <=> ( /\ Len(api.in) > 0
                         /\ \/ ParseIP(api.in)
                            \/ api.in = Localhost
                            \/ ValidDnsName(api.in) ))


\* C29: validation accepts a descriptor exactly when its host is valid, its
\* port is within 1024..65535, its password is not empty and its db index is
\* not negative, whatever the size of the db index; ports 80, 1023, 0, -1,
\* 65536 and 70000 and the all-zero descriptor are refused.
C29_ValidationAccepts ==
    api.op = "validateRedisConfConn"
       => /\ (api.out = "nil")
                <=> ( /\ isValidHost(api.in.Host)
                      /\ api.in.Port >= 1024 /\ api.in.Port <= 65535
                      /\ api.in.Password # ""
                      /\ api.in.DB >= 0 )
          /\ api.in.Port \in {80, 1023, 0, -1, 65536, 70000} => api.out # "nil"
          /\ api.in = ZeroConf => api.out # "nil"

\* C29 witness: port 6379 with a password, a valid host and a large db index
\* passed validation.
C29_Witness ==
    /\ api.op = "validateRedisConfConn"
    /\ api.in.Port = 6379 /\ api.in.Password # "" /\ api.in.DB = 999999
    /\ api.out = "nil"

\* C24: for every accepted descriptor, the key-event channels subscribed to
\* are those of the descriptor's db index, the database the client reads from.
C24_ChannelsOfConfiguredDb ==
    (api.op = "newRedisClientConnector" /\ api.out.err = "nil")
       => (api.out.events = api.in.DB /\ api.out.DB = api.in.DB)


\* C31: the connection builder returns a handle only after a ping on that
\* connection succeeded; when validation fails no connection is created; when
\* the ping fails it returns an error and no handle.
C31_HandleLivenessChecked ==
    api.op = "newRedisClientConnector"
       => /\ api.out.handle => (api.out.pinged /\ api.out.err = "nil")
          /\ api.out.handle <=> api.out.err = "nil"
          /\ validateRedisConfConn(api.in) # "nil" => ~api.out.created
          /\ (api.out.created /\ api.ping = "error")
                => (~api.out.handle /\ api.out.err # "nil")

\* C31 witness: a valid descriptor whose ping failed got an error and no handle.
C31_Witness ==
    /\ api.op = "newRedisClientConnector"
    /\ api.out.created /\ api.ping = "error" /\ ~api.out.handle


\* C32: once stop() has cancelled the context, the loop takes no further
\* message from the subscription and hands no further event to a consumer,
\* even when a message is waiting or a consumer is ready.
C32_StopsAtCancellation ==
    [][ctxDone => (received' = received /\ delivered' = delivered)]_vars


\* C33: at most one constructed event awaits hand-off; the loop takes the
\* next message only when no event is pending and every event built so far
\* has been received by a consumer; and while no consumer receives and the
\* context is not cancelled, the loop stays on that one event.
C33_Backpressure ==
    /\ [](Cardinality(Sending) <= 1)
    /\ [][received' # received
            => (Sending = {} /\ Len(emitted) = Len(delivered))]_vars
    /\ [][\A g \in Sending :
            (delivered' = delivered /\ ~ctxDone)
               => (loops'[g].pc = "send" /\ loops'[g].ev = loops[g].ev
                   /\ received' = received)]_vars

\* C33 witness: an event awaits hand-off while the next message is already
\* waiting in the subscription, and the context is not cancelled.
C33_Witness ==
    /\ ~ctxDone
    /\ \E g \in Sending : Len(loops[g].queue) > 0


\* the events (by the message each was built from) that consumer c received
GotBy(c) == { delivered[i].ev.src : i \in { j \in DOMAIN delivered : delivered[j].to = c } }

\* C34: every getter call returns the one event channel, and with several
\* consumers receiving from it each event goes to exactly one of them: the
\* consumers' sets are pairwise disjoint, their union is what was delivered,
\* nothing is delivered twice, and a hand-off gives one event to one consumer.
C34_DisjointDelivery ==
    /\ [](/\ view # NoView => view.chan = keyEventChan
          /\ \A c, d \in Consumers : c # d => GotBy(c) \cap GotBy(d) = {}
          /\ Cardinality(UNION { GotBy(c) : c \in Consumers }) = Len(delivered)
          /\ \A i \in DOMAIN delivered :
                \E k \in DOMAIN emitted : emitted[k].ev = delivered[i].ev)
    /\ [][delivered' # delivered
            => \E c \in Consumers, g \in Sending :
                  delivered' = Append(delivered, [to |-> c, ev |-> loops[g].ev])]_vars

\* C34 witness: two consumers that asked for the channel have each received
\* one of two events.
C34_Witness ==
    /\ view # NoView
    /\ Len(delivered) = 2
    /\ \A c \in Consumers : Cardinality(GotBy(c)) = 1


\* C35: a message classified Unknown is discarded before any value is read:
\* no point read is issued to the store for it.
C35_NoReadForUnknown ==
    \A g \in DOMAIN loops : loops[g].rd # ReadDiscarded


\* C36: FindKeyByPattern skips a scanned key that is gone when its value is
\* read and goes on to the next one: it returns the first scanned key whose
\* value can still be read, and reports that no keys were found only when
\* no scanned key can be read.
C36_VanishedKeySkipped ==
    (/\ api.op = "FindKeyByPattern"
     /\ ~api.iterErr
     /\ \A i \in DOMAIN api.in : api.in[i] \in {"value", "redis.Nil"})
       => LET readable == { i \in DOMAIN api.in : api.in[i] = "value" } IN
          IF readable = {}
          THEN api.out.err = "no keys found for pattern"
          ELSE /\ api.out.err = "nil"
               /\ api.out.key \in readable
               /\ \A i \in readable : api.out.key <= i

\* C37: after any sequence of start() and stop() calls, a start() after a
\* stop() included, whenever nobody is inside start() or stop() and the running
\* flag is true, the cancellation has not fired and a receive loop is alive at
\* a point from which it can still receive.
C37_RunningMeansReceiving ==
    (fault = "none" /\ mu = NoThread /\ isRunning)
       => /\ ~ctxDone
          /\ \E g \in DOMAIN loops :
                loops[g].pc \in {"select", "process", "send"} /\ loops[g].subOpen

\* C38: when NewRedisGk returns an error after the connection was opened (the
\* notification setup failed at its ping or at its configuration step), the
\* connection has been closed and no receive loop is running.
C38_FailedConstructionCleansUp ==
    [][\A t \in Threads :
         (pc[t] \in {"new_ping", "new_config"} /\ facade' = "failed")
            => (~connOpen' /\ LiveLoops' = {})]_vars

\* C39: in the once-initialised connector, over every sequence of
\* newRedisClientConnector calls, no call returns a nil handle together with a
\* nil error; a call made after a call that failed validation included.
C39_NeverNilHandleNilError ==
    \A i \in DOMAIN pkg.last :
       ~(pkg.last[i].out.client.nil /\ pkg.last[i].out.err = "nil")

\* a key in canonical shape: non-empty, within the ceiling, without upper-case
\* letters, spaces or meta-characters, without two adjacent ':' and with no
\* ':' at either end
CanonicalKey(k) ==
    /\ Len(k) > 0 /\ Len(k) <= maxSizeData
    /\ \A i \in 1..Len(k) :
          k[i] \notin UpperLetters \cup {" ", "*", "?", "[", "]", "."}
    /\ \A i \in 1..(Len(k) - 1) : ~(k[i] = ":" /\ k[i + 1] = ":")
    /\ k[1] # ":" /\ k[Len(k)] # ":"

\* C40: every key slicePathsConvertor returns with a nil error is in canonical
\* shape.
C40_ReturnedKeyCanonical ==
    (api.op = "slicePathsConvertor" /\ api.out.err = "nil")
       => CanonicalKey(api.out.key)

=============================================================================
